---- MODULE Spec2Model ----
(***************************************************************************)
(* Balance / settlement core of robux-hub: the Supabase edge functions     *)
(* asaas-create-withdrawal, asaas-webhook and asaas-check-payment and the  *)
(* client-side purchase page, run as concurrent request handlers over one  *)
(* Postgres store and the Asaas payment gateway.                           *)
(*                                                                         *)
(* Money.  Columns declared DECIMAL(10, 2) hold integer cents.  Values a   *)
(* handler computes in JavaScript doubles are carried exactly, in          *)
(* thousandths of a cent (1 cent = Milli units), and are rounded when they *)
(* are written to a DECIMAL(10, 2) column.                                 *)
(*                                                                         *)
(* Every awaited store or gateway call of a handler is one atomic step;    *)
(* the handlers interleave between calls.  Reads of rows that no modelled  *)
(* operation changes (sellers.user_id, user_roles, the gateway's payment   *)
(* record) are folded into the step that precedes them.                    *)
(***************************************************************************)
EXTENDS Integers, Sequences, FiniteSets, Bags, TLC

\* ------------------------------------------------------------------ bounds
\* requests (handler invocations) started in one behaviour
MaxRequests == 2
\* requestWithdrawal gross amounts of the fee-law specification: GrossLo..GrossLo+GrossSpan cents
GrossSpan == 20

\* -------------------------------------------------------- program constants
\* 1 cent in the unit of computed (double) values
Milli == 1000
\* asaas-create-withdrawal: amount < 10 is rejected (in cents)
MinWithdrawal == 1000
\* asaas-create-withdrawal: adminFee = amount * 0.05, in percent
FeePercent == 5
\* asaas-create-payment: amount < 5 is rejected (in cents)
MinDeposit == 500

\* ------------------------------------------------------------------ universe
Procs == {1, 2}
S1 == "s1"
S2 == "s2"
Adm == "adm"
Users == {S1, S2, Adm}
NoUser == "none"

PayA == <<1>>
PayB == <<2>>
PayC == <<3>>
NoPay == <<>>

\* the type CHECK of public.transactions
TxTypes == {"deposit", "purchase", "sale", "withdrawal"}

VARIABLES
  balance,       \* profiles.balance, cents, per user
  transactions,  \* public.transactions, a bag of rows
  withdrawals,   \* public.withdrawals, in insertion order (the index is the id)
  orders,        \* public.orders, in insertion order (the index is the id)
  sellers,       \* public.sellers, keyed by user_id
  adminRole,     \* user_roles: the first user with role admin, or NoUser
  payments,      \* the gateway's payments, keyed by payment id
  transfers,     \* the gateway's transfers, in creation order
  customers,     \* the gateway's customers: the users that have one
  req,           \* the request handlers in flight, per slot
  nreq           \* requests started so far

dbvars == <<balance, transactions, withdrawals, orders, sellers, adminRole>>
gwvars == <<payments, transfers, customers>>
vars == <<balance, transactions, withdrawals, orders, sellers, adminRole,
          payments, transfers, customers, req, nreq>>

\* ------------------------------------------------------------------ helpers
Abs(x) == IF x < 0 THEN -x ELSE x

\* A value x (thousandths of a cent) written to a DECIMAL(10, 2) column:
\* Postgres rounds the decimal text half away from zero.
Round2(x) ==
  LET q == Abs(x) \div Milli
      r == Abs(x) % Milli
      m == IF r * 2 < Milli THEN q ELSE q + 1
  IN  IF x < 0 THEN -m ELSE m

\* The double a handler computes where the exact result is x.  It differs from
\* x by a rounding error far below a thousandth of a cent, which shows only
\* when x lies on a half cent: the double is then the tie itself or its
\* neighbour just below (10.1 - 10.1 * 0.05 = 9.594999999999999), carried
\* here as one thousandth of a cent less in magnitude.
Double(x) ==
  IF (Abs(x) % Milli) * 2 = Milli
  THEN {x, IF x < 0 THEN x + 1 ELSE x - 1}
  ELSE {x}

\* a computed value with exact result x, written to a DECIMAL(10, 2) column
Numeric2(x) == {Round2(d) : d \in Double(x)}

RECURSIVE SumRows(_, _)
SumRows(B, S) ==
  IF S = {} THEN 0
  ELSE LET r == CHOOSE x \in S : TRUE
       IN  r.amount * CopiesIn(r, B) + SumRows(B, S \ {r})

\* sum of the amounts of user u's transaction rows
TxSum(u) == SumRows(transactions, {r \in BagToSet(transactions) : r.user = u})

\* number of transaction rows satisfying P
RECURSIVE CountRows(_, _)
CountRows(B, S) ==
  IF S = {} THEN 0
  ELSE LET r == CHOOSE x \in S : TRUE
       IN  CopiesIn(r, B) + CountRows(B, S \ {r})

TxRow(u, t, amt, pay, ord) ==
  [user |-> u, type |-> t, amount |-> amt, pay |-> pay, order |-> ord]

\* supabase .from("transactions").insert(row): the row is stored unless it
\* violates the type CHECK; the handlers do not look at the returned error.
InsertTransaction(row) ==
  IF row.type \in TxTypes
  THEN transactions (+) SetToBag({row})
  ELSE transactions

\* supabase .from("profiles").update({balance: v}).eq("id", u): the row is
\* updated unless v violates CHECK (balance >= 0).
UpdateBalance(u, v) ==
  IF v >= 0 THEN [balance EXCEPT ![u] = v] ELSE balance

\* ------------------------------------------------------------ request slots
Idle ==
  [pc |-> "idle", op |-> "none", user |-> NoUser, amount |-> 0, bal |-> 0,
   abal |-> 0, admin |-> NoUser, wid |-> 0, pay |-> NoPay, value |-> 0,
   seller |-> NoUser, price |-> 0, min |-> 0, max |-> 0,
   xfer |-> "none", credited |-> FALSE, overlap |-> FALSE, http |-> 0,
   err |-> "none", event |-> "none", ref |-> "none", type |-> "none",
   seen |-> <<>>]

Free(p) == req[p].pc \in {"idle", "done"}
InFlight(p) == ~Free(p)

\* a request takes the lowest free slot
CanStart(p) ==
  /\ nreq < MaxRequests
  /\ Free(p)
  /\ \A q \in Procs : q < p => InFlight(q)

\* the slot of a request that starts now; overlap records whether another
\* request is in flight at that moment
Fresh(p, op) ==
  [Idle EXCEPT !.op = op, !.overlap = \E q \in Procs \ {p} : InFlight(q)]

Finish(p, http, err) ==
  [req[p] EXCEPT !.pc = "done", !.http = http, !.err = err,
                 !.bal = 0, !.abal = 0, !.admin = NoUser,
                 !.price = 0, !.min = 0, !.max = 0]

\* ------------------------------------------------------------------ initial
\* Two sellers, each funded by one settled deposit of 100.00, and an admin with
\* no funds; a third payment of 20.00 for s1 is confirmed at the gateway and
\* not yet settled.
InitBalance == [u \in Users |-> IF u = Adm THEN 0 ELSE 10000]

InitPayments ==
  (PayA :> [userId |-> S1, type |-> "deposit", value |-> 10000, status |-> "CONFIRMED"]) @@
  (PayB :> [userId |-> S2, type |-> "deposit", value |-> 10000, status |-> "CONFIRMED"]) @@
  (PayC :> [userId |-> S1, type |-> "deposit", value |-> 2000, status |-> "CONFIRMED"])

InitTransactions ==
  SetToBag({TxRow(S1, "deposit", 10000, PayA, 0), TxRow(S2, "deposit", 10000, PayB, 0)})

InitSellers ==
  (S1 :> [price_per_1k |-> 500, min_amount |-> 1000, max_amount |-> 2000]) @@
  (S2 :> [price_per_1k |-> 3000, min_amount |-> 1000, max_amount |-> 2000])

Init ==
  /\ balance = InitBalance
  /\ transactions = InitTransactions
  /\ withdrawals = <<>>
  /\ orders = <<>>
  /\ sellers = InitSellers
  /\ adminRole = Adm
  /\ payments = InitPayments
  /\ transfers = <<>>
  /\ customers = {payments[pid].userId : pid \in DOMAIN InitPayments}
  /\ req = [p \in Procs |-> Idle]
  /\ nreq = 0

\* --------------------------------------------- asaas-create-withdrawal
AdminFee(amount) == (amount * Milli * FeePercent) \div 100
NetAmount(amount) == amount * Milli - AdminFee(amount)

\* lines 29-61: authentication, the minimum amount, the seller lookup
RequestWithdrawal(p, u, amount) ==
  /\ CanStart(p)
  /\ nreq' = nreq + 1
  /\ LET r == [Fresh(p, "withdrawal") EXCEPT !.user = u, !.amount = amount]
     IN  req' = [req EXCEPT ![p] =
           IF amount = 0 \/ amount < MinWithdrawal
             THEN [r EXCEPT !.pc = "done", !.http = 400, !.err = "InvalidAmount"]
           ELSE IF u \notin DOMAIN sellers
             THEN [r EXCEPT !.pc = "done", !.http = 400, !.err = "NotASeller"]
           ELSE [r EXCEPT !.pc = "w_profile"]]
  /\ UNCHANGED <<dbvars, gwvars>>

\* the balance check with <= for <: a balance equal to the amount is refused
InsufficientBalanceLe(bal, amount) == bal <= amount

\* line 70: Number(profile.balance) < amount
InsufficientBalance(bal, amount) == bal < amount

\* the admin lookup falling back to the account adm when no user has the role
AdminLookupFallback == IF adminRole = NoUser THEN Adm ELSE adminRole

\* lines 74-80: the first user with role admin, null when there is none
AdminLookup == adminRole

\* lines 63-80: the balance read and check, the admin lookup
WReadProfile(p) ==
  /\ req[p].pc = "w_profile"
  /\ req' = [req EXCEPT ![p] =
       IF InsufficientBalance(balance[req[p].user], req[p].amount)
         THEN Finish(p, 400, "InsufficientBalance")
       ELSE [req[p] EXCEPT !.pc = "w_insert", !.bal = balance[req[p].user],
                           !.admin = AdminLookup]]
  /\ UNCHANGED <<dbvars, gwvars, nreq>>

\* lines 82-97: the withdrawal row, amount = netAmount, status pending
WInsertWithdrawal(p) ==
  /\ req[p].pc = "w_insert"
  /\ \E net \in Numeric2(NetAmount(req[p].amount)) :
       /\ withdrawals' = Append(withdrawals,
            [seller_id |-> req[p].user, amount |-> net, status |-> "pending",
             originalAmount |-> req[p].amount, adminFee |-> AdminFee(req[p].amount)])
       /\ req' = [req EXCEPT ![p].pc = "w_debit", ![p].wid = Len(withdrawals) + 1]
  /\ UNCHANGED <<balance, transactions, orders, sellers, adminRole, gwvars, nreq>>

\* lines 99-104: newBalance = the balance read - amount; the result of the
\* update is not looked at.  stored = FALSE is a store call that fails.
WDebit(p, stored) ==
  /\ req[p].pc = "w_debit"
  /\ balance' = IF stored
                THEN UpdateBalance(req[p].user, req[p].bal - req[p].amount)
                ELSE balance
  /\ req' = [req EXCEPT ![p].pc =
       IF req[p].admin # NoUser THEN "w_admin" ELSE "w_tx"]
  /\ UNCHANGED <<transactions, withdrawals, orders, sellers, adminRole, gwvars, nreq>>

\* lines 107-114: the admin's balance read
WReadAdmin(p) ==
  /\ req[p].pc = "w_admin"
  /\ req' = [req EXCEPT ![p].pc = "w_credit", ![p].abal = balance[req[p].admin]]
  /\ UNCHANGED <<dbvars, gwvars, nreq>>

\* lines 115-119: newAdminBalance = the admin balance read + adminFee
WCreditAdmin(p) ==
  /\ req[p].pc = "w_credit"
  /\ \E v \in Numeric2(req[p].abal * Milli + AdminFee(req[p].amount)) :
       balance' = UpdateBalance(req[p].admin, v)
  /\ req' = [req EXCEPT ![p].pc = "w_feetx"]
  /\ UNCHANGED <<transactions, withdrawals, orders, sellers, adminRole, gwvars, nreq>>

\* lines 121-127: the fee transaction row
WInsertFeeTx(p) ==
  /\ req[p].pc = "w_feetx"
  /\ \E fee \in Numeric2(AdminFee(req[p].amount)) :
       transactions' = InsertTransaction(TxRow(req[p].admin, "fee", fee, NoPay, 0))
  /\ req' = [req EXCEPT ![p].pc = "w_tx"]
  /\ UNCHANGED <<balance, withdrawals, orders, sellers, adminRole, gwvars, nreq>>

\* lines 131-137: the seller's transaction row, amount = -amount
WInsertTx(p) ==
  /\ req[p].pc = "w_tx"
  /\ transactions' =
       InsertTransaction(TxRow(req[p].user, "withdrawal", -req[p].amount, NoPay, 0))
  /\ req' = [req EXCEPT ![p].pc = "w_transfer"]
  /\ UNCHANGED <<balance, withdrawals, orders, sellers, adminRole, gwvars, nreq>>

\* lines 139-171: POST /transfers inside try/catch.  The gateway answers with
\* a transfer id ("id"), answers without one ("noid"), or the call throws
\* before the gateway acted ("throw") or after it created the transfer
\* ("timeout").
TransferOutcomes == {"id", "noid", "throw", "timeout"}

\* the transfer call with a timeout taken for an accepted transfer
WTransferTimeoutOk(p, outcome) ==
  /\ req[p].pc = "w_transfer"
  /\ \E net \in Numeric2(NetAmount(req[p].amount)) :
       transfers' = IF outcome \in {"id", "timeout"}
                    THEN Append(transfers, [value |-> net, withdrawalId |-> req[p].wid,
                                            sellerId |-> req[p].user])
                    ELSE transfers
  /\ req' = [req EXCEPT ![p] =
       IF outcome \in {"id", "timeout"}
       THEN [req[p] EXCEPT !.pc = "w_approve", !.xfer = outcome]
       ELSE [Finish(p, 200, "none") EXCEPT !.xfer = outcome]]
  /\ UNCHANGED <<dbvars, payments, customers, nreq>>

WTransfer(p, outcome) ==
  /\ req[p].pc = "w_transfer"
  /\ \E net \in Numeric2(NetAmount(req[p].amount)) :
       transfers' = IF outcome \in {"id", "timeout"}
                    THEN Append(transfers, [value |-> net, withdrawalId |-> req[p].wid,
                                            sellerId |-> req[p].user])
                    ELSE transfers
  /\ req' = [req EXCEPT ![p] =
       IF outcome = "id" THEN [req[p] EXCEPT !.pc = "w_approve", !.xfer = outcome]
       ELSE [Finish(p, 200, "none") EXCEPT !.xfer = outcome]]
  /\ UNCHANGED <<dbvars, payments, customers, nreq>>

\* lines 163-168, 173-183: status approved, then the success response
WApprove(p) ==
  /\ req[p].pc = "w_approve"
  /\ withdrawals' = [withdrawals EXCEPT ![req[p].wid].status = "approved"]
  /\ req' = [req EXCEPT ![p] = Finish(p, 200, "none")]
  /\ UNCHANGED <<balance, transactions, orders, sellers, adminRole, gwvars, nreq>>

WithdrawalStep(p) ==
  \/ WReadProfile(p)
  \/ WInsertWithdrawal(p)
  \/ WDebit(p, TRUE)
  \/ WReadAdmin(p)
  \/ WCreditAdmin(p)
  \/ WInsertFeeTx(p)
  \/ WInsertTx(p)
  \/ \E o \in TransferOutcomes : WTransfer(p, o)
  \/ WApprove(p)

\* --------------------------------------------------------- asaas-webhook
ConfirmEvents == {"PAYMENT_CONFIRMED", "PAYMENT_RECEIVED"}
TransferEvents == {"TRANSFER_CONFIRMED", "TRANSFER_DONE"}

\* The request body as the handler reads it.  kind tells what lines 20-42
\* find: "nobody" a body that is not JSON (req.json() throws), "missing" no
\* payment or no payment.externalReference, "invalid" a reference that is not
\* JSON, "null" the JSON text null (destructuring it throws), "json" the JSON
\* object {userId, type, sellerId, withdrawalId}.
Ref(kind, u, t, w) == [kind |-> kind, userId |-> u, type |-> t, withdrawalId |-> w]

\* the deliveries the gateway makes: PAYMENT_CREATED for every payment, the
\* confirmation events for a confirmed one (delivered at least once, so any
\* number of times), the transfer events for a transfer it created
GatewayDeliveries ==
  {[event |-> e, id |-> pid, value |-> payments[pid].value,
    ref |-> Ref("json", payments[pid].userId, payments[pid].type, 0)] :
      pid \in {x \in DOMAIN payments : payments[x].status = "CONFIRMED"},
      e \in ConfirmEvents}
  \cup
  {[event |-> "PAYMENT_CREATED", id |-> pid, value |-> payments[pid].value,
    ref |-> Ref("json", payments[pid].userId, payments[pid].type, 0)] :
      pid \in DOMAIN payments}
  \cup
  {[event |-> "TRANSFER_DONE", id |-> NoPay, value |-> transfers[i].value,
    ref |-> Ref("json", NoUser, "withdrawal", transfers[i].withdrawalId)] :
      i \in 1..Len(transfers)}

\* other bodies the endpoint accepts (it checks no signature): payments of
\* 20.00 made outside the application, whose reference is missing, not JSON
\* or null, and a body that is not JSON
MalformedDeliveries ==
  {[event |-> e, id |-> PayC, value |-> 2000, ref |-> Ref(k, NoUser, "none", 0)] :
      e \in {"PAYMENT_CONFIRMED", "TRANSFER_DONE"},
      k \in {"missing", "invalid", "null"}}
  \cup
  {[event |-> "none", id |-> NoPay, value |-> 0, ref |-> Ref("nobody", NoUser, "none", 0)]}

\* bodies whose event and reference do not match: a confirmation event with
\* the reference of withdrawal 1, a transfer event with a deposit reference,
\* a confirmation event with a deposit reference that names no account
MismatchedDeliveries ==
  {[event |-> e, id |-> PayC, value |-> 2000, ref |-> Ref("json", S1, "withdrawal", 1)] :
      e \in ConfirmEvents}
  \cup
  {[event |-> e, id |-> PayC, value |-> 2000, ref |-> Ref("json", S1, "deposit", 1)] :
      e \in TransferEvents}
  \cup
  {[event |-> e, id |-> PayC, value |-> 2000, ref |-> Ref("json", NoUser, "deposit", 0)] :
      e \in ConfirmEvents}

\* an id the gateway gave no payment
PayForged == <<9>>

\* bodies written by someone other than the gateway (the handler reads the
\* event, the value and the reference from the body and looks nothing up):
\* a confirmation of 77.00 for account s2, under an id the gateway never
\* issued or under the id of s1's payment of 20.00
ForgedDeliveries ==
  {[event |-> "PAYMENT_CONFIRMED", id |-> pid, value |-> 7700,
    ref |-> Ref("json", S2, "deposit", 0)] : pid \in {PayForged, PayC}}

\* lines 20-42 with the catch clause of JSON.parse left out: a reference that
\* is not JSON throws
ParseReferenceNoCatch(kind) ==
  IF kind \in {"nobody", "null", "invalid"} THEN "throw"
  ELSE IF kind = "missing" THEN "skip"
  ELSE "parsed"

\* lines 20-42: req.json(), the missing reference, JSON.parse inside
\* try/catch, the destructuring of referenceData
ParseReference(kind) ==
  IF kind \in {"nobody", "null"} THEN "throw"
  ELSE IF kind \in {"missing", "invalid"} THEN "skip"
  ELSE "parsed"

\* the deposit guard without the test of the reference type
IsDepositCreditAnyType(event, type, userId) ==
  event \in ConfirmEvents /\ userId # NoUser

\* lines 45-46: a confirmation event, type === "deposit" && userId
IsDepositCredit(event, type, userId) ==
  event \in ConfirmEvents /\ type = "deposit" /\ userId # NoUser

\* lines 20-46, 77-78, 91-104: the body, the reference, the event and type
\* guards; an exception is answered with 500
Webhook(p, body) ==
  /\ CanStart(p)
  /\ nreq' = nreq + 1
  /\ LET f == [Fresh(p, "webhook") EXCEPT !.event = body.event,
                           !.ref = body.ref.kind, !.type = body.ref.type]
         r == [f EXCEPT !.user = body.ref.userId,
                        !.pay = body.id, !.value = body.value,
                        !.wid = body.ref.withdrawalId]
         end == [f EXCEPT !.pc = "done", !.http = 200]
     IN  req' = [req EXCEPT ![p] =
           IF ParseReference(body.ref.kind) = "throw"
             THEN [f EXCEPT !.pc = "done", !.http = 500, !.err = "Exception"]
           ELSE IF ParseReference(body.ref.kind) = "skip" THEN end
           ELSE IF IsDepositCredit(body.event, body.ref.type, body.ref.userId)
             THEN [r EXCEPT !.pc = "h_profile"]
           ELSE IF body.event \in TransferEvents
                   /\ body.ref.type = "withdrawal" /\ body.ref.withdrawalId # 0
             THEN [r EXCEPT !.pc = "h_complete"]
           ELSE end]
  /\ UNCHANGED <<dbvars, gwvars>>

\* lines 47-54: the balance read
HReadProfile(p) ==
  /\ req[p].pc = "h_profile"
  /\ req' = [req EXCEPT ![p] =
       IF req[p].user \in DOMAIN balance
         THEN [req[p] EXCEPT !.pc = "h_credit", !.bal = balance[req[p].user]]
       ELSE Finish(p, 200, "none")]
  /\ UNCHANGED <<dbvars, gwvars, nreq>>

\* lines 55-61: newBalance = the balance read + payment.value
HCredit(p) ==
  /\ req[p].pc = "h_credit"
  /\ balance' = UpdateBalance(req[p].user, req[p].bal + req[p].value)
  /\ req' = [req EXCEPT ![p].pc = "h_tx", ![p].credited = TRUE]
  /\ UNCHANGED <<transactions, withdrawals, orders, sellers, adminRole, gwvars, nreq>>

\* lines 63-72, 91-93: the deposit row, whose description ends in the payment id
HInsertTx(p) ==
  /\ req[p].pc = "h_tx"
  /\ transactions' =
       InsertTransaction(TxRow(req[p].user, "deposit", req[p].value, req[p].pay, 0))
  /\ req' = [req EXCEPT ![p] = Finish(p, 200, "none")]
  /\ UNCHANGED <<balance, withdrawals, orders, sellers, adminRole, gwvars, nreq>>

\* lines 79-93: status completed for the withdrawal the reference names
HComplete(p) ==
  /\ req[p].pc = "h_complete"
  /\ withdrawals' =
       IF req[p].wid \in DOMAIN withdrawals
       THEN [withdrawals EXCEPT ![req[p].wid].status = "completed"]
       ELSE withdrawals
  /\ req' = [req EXCEPT ![p] = Finish(p, 200, "none")]
  /\ UNCHANGED <<balance, transactions, orders, sellers, adminRole, gwvars, nreq>>

WebhookStep(p) ==
  \/ HReadProfile(p)
  \/ HCredit(p)
  \/ HInsertTx(p)
  \/ HComplete(p)

\* --------------------------------------------------- asaas-check-payment
\* description ILIKE %paymentId%: the id occurs somewhere in the description
Contains(desc, pid) ==
  \E i \in 0..(Len(desc) - Len(pid)) : SubSeq(desc, i + 1, i + Len(pid)) = pid

\* the reference guard without the comparison of the account with the caller
IsOwnDepositAnyCaller(u, pid) == payments[pid].type = "deposit"

\* line 61: referenceData.userId === user.id && referenceData.type === "deposit"
IsOwnDeposit(u, pid) ==
  payments[pid].userId = u /\ payments[pid].type = "deposit"

\* lines 23-61: authentication, GET /payments/{id}, the status, owner and
\* type guards
CheckPayment(p, u, pid) ==
  /\ CanStart(p)
  /\ nreq' = nreq + 1
  /\ LET r == [Fresh(p, "check") EXCEPT !.user = u, !.pay = pid]
     IN  req' = [req EXCEPT ![p] =
           IF pid \notin DOMAIN payments
             THEN [r EXCEPT !.pc = "done", !.http = 400, !.err = "NotFound"]
           ELSE IF payments[pid].status \in {"CONFIRMED", "RECEIVED"}
                   /\ IsOwnDeposit(u, pid)
             THEN [r EXCEPT !.pc = "c_lookup", !.value = payments[pid].value]
           ELSE [r EXCEPT !.pc = "done", !.http = 200]]
  /\ UNCHANGED <<dbvars, gwvars>>

\* lines 62-71: existingTx is the single deposit row of the user whose
\* description contains the id; .single() yields no data for 0 or 2+ rows
ExistingTx(u, pid) ==
  CountRows(transactions,
            {r \in BagToSet(transactions) :
               r.user = u /\ r.type = "deposit" /\ Contains(r.pay, pid)}) = 1

CLookup(p) ==
  /\ req[p].pc = "c_lookup"
  /\ req' = [req EXCEPT ![p] =
       IF ExistingTx(req[p].user, req[p].pay)
         THEN Finish(p, 200, "none")
       ELSE [req[p] EXCEPT !.pc = "c_profile"]]
  /\ UNCHANGED <<dbvars, gwvars, nreq>>

\* lines 72-79: the balance read
CReadProfile(p) ==
  /\ req[p].pc = "c_profile"
  /\ req' = [req EXCEPT ![p].pc = "c_credit", ![p].bal = balance[req[p].user]]
  /\ UNCHANGED <<dbvars, gwvars, nreq>>

\* lines 80-85: newBalance = the balance read + payment.value
CCredit(p) ==
  /\ req[p].pc = "c_credit"
  /\ balance' = UpdateBalance(req[p].user, req[p].bal + req[p].value)
  /\ req' = [req EXCEPT ![p].pc = "c_tx", ![p].credited = TRUE]
  /\ UNCHANGED <<transactions, withdrawals, orders, sellers, adminRole, gwvars, nreq>>

\* lines 87-111: the deposit row, then the status response
CInsertTx(p) ==
  /\ req[p].pc = "c_tx"
  /\ transactions' =
       InsertTransaction(TxRow(req[p].user, "deposit", req[p].value, req[p].pay, 0))
  /\ req' = [req EXCEPT ![p] = Finish(p, 200, "none")]
  /\ UNCHANGED <<balance, withdrawals, orders, sellers, adminRole, gwvars, nreq>>

CheckStep(p) ==
  \/ CLookup(p)
  \/ CReadProfile(p)
  \/ CCredit(p)
  \/ CInsertTx(p)

\* --------------------------------------------------- asaas-create-payment
\* the amount check taking only a missing amount for invalid
BelowMinimumMissing(amount) == amount = 0

\* line 46: !amount || amount < 5
BelowMinimum(amount) == amount = 0 \/ amount < MinDeposit

\* lines 31-59: authentication, the amount check, the profile read
CreatePayment(p, u, amount) ==
  /\ CanStart(p)
  /\ nreq' = nreq + 1
  /\ LET r == [Fresh(p, "deposit") EXCEPT !.user = u, !.amount = amount]
     IN  req' = [req EXCEPT ![p] =
           IF BelowMinimum(amount)
             THEN [r EXCEPT !.pc = "done", !.http = 400, !.err = "InvalidAmount"]
           ELSE IF u \notin DOMAIN balance
             THEN [r EXCEPT !.pc = "done", !.http = 400, !.err = "NotFound"]
           ELSE [r EXCEPT !.pc = "d_customer"]]
  /\ UNCHANGED <<dbvars, gwvars>>

\* lines 83-108: POST /customers.  The gateway creates the customer
\* ("created"), answers 409 and the customer is found by email ("exists"), or
\* no customer id comes back ("noid").
CustomerOutcomes == {"created", "exists", "noid"}

DCustomer(p, outcome) ==
  /\ req[p].pc = "d_customer"
  /\ outcome = "exists" => req[p].user \in customers
  /\ customers' = IF outcome = "created" THEN customers \cup {req[p].user}
                  ELSE customers
  /\ req' = [req EXCEPT ![p] =
       IF outcome = "noid" THEN Finish(p, 400, "GatewayError")
       ELSE [req[p] EXCEPT !.pc = "d_payment"]]
  /\ UNCHANGED <<dbvars, payments, transfers, nreq>>

\* the id the gateway gives its next payment
NextPaymentId == <<Cardinality(DOMAIN payments) + 1>>

\* lines 110-163: POST /payments with externalReference {userId, type:
\* "deposit"}; for PIX the QR code is fetched; errors in the answer throw
DPayment(p, created) ==
  /\ req[p].pc = "d_payment"
  /\ payments' =
       IF created
       THEN payments @@ (NextPaymentId :>
              [userId |-> req[p].user, type |-> "deposit",
               value |-> req[p].amount, status |-> "PENDING"])
       ELSE payments
  /\ req' = [req EXCEPT ![p] =
       IF created THEN [Finish(p, 200, "none") EXCEPT !.pay = NextPaymentId]
       ELSE Finish(p, 400, "GatewayError")]
  /\ UNCHANGED <<dbvars, transfers, customers, nreq>>

DepositStep(p) ==
  \/ \E o \in CustomerOutcomes : DCustomer(p, o)
  \/ \E c \in BOOLEAN : DPayment(p, c)

\* ------------------------------------------------ purchase page (Purchase)
\* fetchData, lines 72-79: the buyer's profile row is loaded once, into state
OpenPurchase(p, u, s) ==
  /\ CanStart(p)
  /\ nreq' = nreq + 1
  /\ req' = [req EXCEPT ![p] =
       [Fresh(p, "purchase") EXCEPT !.pc = "b_seller", !.user = u,
                                    !.seller = s, !.bal = balance[u]]]
  /\ UNCHANGED <<dbvars, gwvars>>

\* fetchData, lines 81-103: the seller row is loaded once, into state
BFetchSeller(p) ==
  /\ req[p].pc = "b_seller"
  /\ req' = [req EXCEPT ![p] =
       IF req[p].seller \in DOMAIN sellers
         THEN [req[p] EXCEPT !.pc = "b_form",
                             !.price = sellers[req[p].seller].price_per_1k,
                             !.min = sellers[req[p].seller].min_amount,
                             !.max = sellers[req[p].seller].max_amount]
       ELSE Finish(p, 0, "NotFound")]
  /\ UNCHANGED <<dbvars, gwvars, nreq>>

\* calculateTotal, lines 111-115: (robuxAmount / 1000) * price_per_1k, with the
\* price in cents the total in thousandths of a cent is their product
CalculateTotal(robuxAmount, price) == robuxAmount * price

\* the quantity check with >= for >: a quantity equal to max_amount is refused
InvalidQuantityGe(robuxAmount, min, max) == robuxAmount < min \/ robuxAmount >= max

\* handlePurchase, line 122: robuxAmount < seller.min_amount ||
\* robuxAmount > seller.max_amount
InvalidQuantity(robuxAmount, min, max) == robuxAmount < min \/ robuxAmount > max

\* handlePurchase, lines 117-140: the quantity and balance checks, both against
\* the rows loaded by fetchData; amount keeps the quantity entered, value the
\* double totalPrice
HandlePurchase(p, robuxAmount) ==
  /\ req[p].pc = "b_form"
  /\ \E totalPrice \in Double(CalculateTotal(robuxAmount, req[p].price)) :
       req' = [req EXCEPT ![p] =
         IF InvalidQuantity(robuxAmount, req[p].min, req[p].max)
           THEN [Finish(p, 0, "InvalidQuantity") EXCEPT !.amount = robuxAmount]
         ELSE IF req[p].bal * Milli < totalPrice
           THEN [Finish(p, 0, "InsufficientBalance") EXCEPT !.amount = robuxAmount]
         ELSE [req[p] EXCEPT !.pc = "b_insert", !.amount = robuxAmount,
                             !.value = totalPrice]]
  /\ UNCHANGED <<dbvars, gwvars, nreq>>

\* handlePurchase, lines 145-158: the order row, status pending by default
BInsertOrder(p) ==
  /\ req[p].pc = "b_insert"
  /\ LET total == Round2(req[p].value)
     IN
       IF total > 0
       THEN /\ orders' = Append(orders,
                 [buyer_id |-> req[p].user, seller_id |-> req[p].seller,
                  amount |-> req[p].amount, total_price |-> total,
                  status |-> "pending", completed_at |-> FALSE])
            /\ req' = [req EXCEPT ![p].pc = "b_debit", ![p].wid = Len(orders) + 1]
       ELSE /\ orders' = orders
            /\ req' = [req EXCEPT ![p] = Finish(p, 0, "OrderError")]
  /\ UNCHANGED <<balance, transactions, withdrawals, sellers, adminRole, gwvars, nreq>>

\* handlePurchase, lines 160-166: balance = the balance loaded by fetchData -
\* totalPrice; an error of the update is thrown.  stored = FALSE is a store
\* call that fails.
BDebit(p, stored) ==
  /\ req[p].pc = "b_debit"
  /\ \E v \in Numeric2(req[p].bal * Milli - req[p].value) :
       IF stored /\ v >= 0
       THEN /\ balance' = UpdateBalance(req[p].user, v)
            /\ req' = [req EXCEPT ![p].pc = "b_tx"]
       ELSE /\ balance' = balance
            /\ req' = [req EXCEPT ![p] = Finish(p, 0, "BalanceError")]
  /\ UNCHANGED <<transactions, withdrawals, orders, sellers, adminRole, gwvars, nreq>>

\* handlePurchase, lines 168-182: the purchase row, amount = -totalPrice
BInsertTx(p) ==
  /\ req[p].pc = "b_tx"
  /\ transactions' =
       InsertTransaction(TxRow(req[p].user, "purchase", Round2(-req[p].value),
                               NoPay, req[p].wid))
  /\ req' = [req EXCEPT ![p] = Finish(p, 200, "none")]
  /\ UNCHANGED <<balance, withdrawals, orders, sellers, adminRole, gwvars, nreq>>

\* handlePurchase, lines 168-175 where the insert fails: the result of the
\* insert is not looked at
BInsertTxFails(p) ==
  /\ req[p].pc = "b_tx"
  /\ req' = [req EXCEPT ![p] = Finish(p, 200, "none")]
  /\ UNCHANGED <<dbvars, gwvars, nreq>>

PurchaseStep(p, quantities) ==
  \/ BFetchSeller(p)
  \/ \E q \in quantities : HandlePurchase(p, q)
  \/ BInsertOrder(p)
  \/ BDebit(p, TRUE)
  \/ BInsertTx(p)

\* ------------------------------------- order status (SellerPanel, AdminPanel)
\* the order_status enum
OrderStatuses == {"pending", "processing", "completed", "cancelled", "disputed"}

\* SellerPanel fetchSellerData, lines 116-128: the seller's orders are loaded
\* once, into state; seen[i] is the status shown for order i ("none" for an
\* order of another seller)
OpenSellerPanel(p, u) ==
  /\ CanStart(p)
  /\ u \in DOMAIN sellers
  /\ nreq' = nreq + 1
  /\ req' = [req EXCEPT ![p] =
       [Fresh(p, "panel") EXCEPT !.pc = "s_panel", !.user = u,
          !.seen = [i \in 1..Len(orders) |->
                      IF orders[i].seller_id = u THEN orders[i].status ELSE "none"]]]
  /\ UNCHANGED <<dbvars, gwvars>>

\* SellerPanel lines 328-345: "processing" is offered for an order shown as
\* pending, "completed" for one shown as processing
SellerOffers(shown) ==
  IF shown = "pending" THEN {"processing"}
  ELSE IF shown = "processing" THEN {"completed"}
  ELSE {}

\* SellerPanel handleUpdateOrderStatus, lines 169-198: status, and
\* completed_at when the new status is completed; then the local list
SellerUpdateOrderStatus(p, i, newStatus) ==
  /\ req[p].pc = "s_panel"
  /\ i \in DOMAIN req[p].seen
  /\ newStatus \in SellerOffers(req[p].seen[i])
  /\ orders' = [orders EXCEPT ![i] =
       [@ EXCEPT !.status = newStatus,
                 !.completed_at = IF newStatus = "completed" THEN TRUE ELSE @]]
  /\ req' = [req EXCEPT ![p].seen[i] = newStatus]
  /\ UNCHANGED <<balance, transactions, withdrawals, sellers, adminRole, gwvars, nreq>>

\* the seller leaves the panel
CloseSellerPanel(p) ==
  /\ req[p].pc = "s_panel"
  /\ req' = [req EXCEPT ![p] = [Finish(p, 0, "none") EXCEPT !.seen = <<>>]]
  /\ UNCHANGED <<dbvars, gwvars, nreq>>

\* the admin's status update with a refund of a cancelled order's total
AdminUpdateOrderStatusRefund(i, newStatus) ==
  /\ adminRole # NoUser
  /\ i \in DOMAIN orders
  /\ orders' = [orders EXCEPT ![i].status = newStatus]
  /\ balance' = IF newStatus = "cancelled" /\ orders[i].status # "cancelled"
                THEN [balance EXCEPT ![orders[i].buyer_id] = @ + orders[i].total_price]
                ELSE balance
  /\ UNCHANGED <<transactions, withdrawals, sellers, adminRole, gwvars, req, nreq>>

\* AdminPanel handleUpdateOrderStatus, lines 195-218: the Select offers every
\* status for every order; only status is written
AdminUpdateOrderStatus(i, newStatus) ==
  /\ adminRole # NoUser
  /\ i \in DOMAIN orders
  /\ orders' = [orders EXCEPT ![i].status = newStatus]
  /\ UNCHANGED <<balance, transactions, withdrawals, sellers, adminRole, gwvars, req, nreq>>

\* SellerPanel handleSaveSettings, lines 136-152: the seller's price and
\* limits are written from the form
HandleSaveSettings(u, settings) ==
  /\ u \in DOMAIN sellers
  /\ sellers' = [sellers EXCEPT ![u] = settings]
  /\ UNCHANGED <<balance, transactions, withdrawals, orders, adminRole, gwvars, req, nreq>>

PanelStep(p) ==
  \/ \E i \in DOMAIN orders, st \in OrderStatuses : SellerUpdateOrderStatus(p, i, st)
  \/ CloseSellerPanel(p)

\* ------------------------------------------------------------ specifications
WithdrawalAmounts == {999, 5000, 6000, 10000}
Quantities == {999, 1000, 2000}
PayIds == {PayA, PayC}

StartWithdrawal(p) ==
  \E u \in Users, a \in WithdrawalAmounts : RequestWithdrawal(p, u, a)

StartWebhook(p) == \E body \in GatewayDeliveries : Webhook(p, body)

StartCheck(p) == \E u \in {S1, S2}, pid \in PayIds : CheckPayment(p, u, pid)

StartPurchase(p) == OpenPurchase(p, S1, S2)

\* concurrent withdrawal requests
NextWithdraw ==
  \E p \in Procs :
    \/ StartWithdrawal(p)
    \/ WithdrawalStep(p)

SpecWithdraw == Init /\ [][NextWithdraw]_vars

\* concurrent deposit confirmations, pushed and pulled
NextDeposit ==
  \E p \in Procs :
    \/ StartWebhook(p)
    \/ StartCheck(p)
    \/ HReadProfile(p) \/ HCredit(p) \/ HInsertTx(p)
    \/ CheckStep(p)

SpecDeposit == Init /\ [][NextDeposit]_vars

\* concurrent debits: withdrawals and purchases
NextDebit ==
  \E p \in Procs :
    \/ \E a \in {6000, 10000} : RequestWithdrawal(p, S1, a)
    \/ StartPurchase(p)
    \/ WithdrawalStep(p)
    \/ PurchaseStep(p, Quantities)

SpecDebit == Init /\ [][NextDebit]_vars

Quiet == \A q \in Procs : Free(q)

\* every handler, one request at a time
NextSeq ==
  \E p \in Procs :
    \/ Quiet /\ StartWithdrawal(p)
    \/ Quiet /\ StartWebhook(p)
    \/ Quiet /\ StartCheck(p)
    \/ Quiet /\ StartPurchase(p)
    \/ WithdrawalStep(p)
    \/ WebhookStep(p)
    \/ CheckStep(p)
    \/ PurchaseStep(p, Quantities)

SpecSeq == Init /\ [][NextSeq]_vars

\* the deposit confirmations, one request at a time
NextSeqDeposit ==
  \E p \in Procs :
    \/ Quiet /\ StartWebhook(p)
    \/ Quiet /\ StartCheck(p)
    \/ HReadProfile(p) \/ HCredit(p) \/ HInsertTx(p)
    \/ CheckStep(p)

SpecSeqDeposit == Init /\ [][NextSeqDeposit]_vars

\* withdrawal requests of s1, one at a time, over a range of gross amounts
FeeAmounts == {5000} \cup (MinWithdrawal..(MinWithdrawal + GrossSpan))

NextFee ==
  \E p \in Procs :
    \/ Quiet /\ \E a \in FeeAmounts : RequestWithdrawal(p, S1, a)
    \/ WithdrawalStep(p)

SpecFee == Init /\ [][NextFee]_vars

\* withdrawal requests, one at a time, where the balance update may fail
NextFault ==
  \E p \in Procs :
    \/ Quiet /\ StartWithdrawal(p)
    \/ WithdrawalStep(p)
    \/ WDebit(p, FALSE)

SpecFault == Init /\ [][NextFault]_vars

\* purchases by both accounts, each buying from the other
PurchaseQuantities == {999, 1000, 1003, 2000, 2001}

StartPurchases(p) ==
  \E u \in {S1, S2} : OpenPurchase(p, u, IF u = S1 THEN S2 ELSE S1)

\* concurrent purchases
NextPurchase ==
  \E p \in Procs :
    \/ StartPurchases(p)
    \/ PurchaseStep(p, PurchaseQuantities)

SpecPurchase == Init /\ [][NextPurchase]_vars

\* purchases, one page at a time
NextSeqPurchase ==
  \E p \in Procs :
    \/ Quiet /\ StartPurchases(p)
    \/ PurchaseStep(p, PurchaseQuantities)

SpecSeqPurchase == Init /\ [][NextSeqPurchase]_vars

\* purchases of whole-cent totals, one page at a time, where the balance
\* update or the transaction insert may fail
NextPurchaseFault ==
  \E p \in Procs :
    \/ Quiet /\ StartPurchases(p)
    \/ PurchaseStep(p, {1000, 2000})
    \/ BDebit(p, FALSE)
    \/ BInsertTxFails(p)

SpecPurchaseFault == Init /\ [][NextPurchaseFault]_vars

\* every body the webhook endpoint accepts
StartDelivery(p) ==
  \E body \in GatewayDeliveries \cup MalformedDeliveries \cup MismatchedDeliveries :
    Webhook(p, body)

\* webhook deliveries running concurrently with withdrawal requests of s1
NextWebhook ==
  \E p \in Procs :
    \/ StartDelivery(p)
    \/ WebhookStep(p)
    \/ RequestWithdrawal(p, S1, 5000)
    \/ WithdrawalStep(p)

SpecWebhook == Init /\ [][NextWebhook]_vars

\* createDeposit requests, concurrently
DepositAmounts == {0, 499, 500, 2000}

StartCreatePayment(p) ==
  \E u \in {S1, Adm}, a \in DepositAmounts : CreatePayment(p, u, a)

NextCreateDeposit ==
  \E p \in Procs :
    \/ StartCreatePayment(p)
    \/ DepositStep(p)

SpecCreateDeposit == Init /\ [][NextCreateDeposit]_vars

\* webhook deliveries and withdrawal requests of s1, one request at a time
NextSeqWebhook ==
  \E p \in Procs :
    \/ Quiet /\ StartDelivery(p)
    \/ Quiet /\ RequestWithdrawal(p, S1, 5000)
    \/ WebhookStep(p)
    \/ WithdrawalStep(p)

SpecSeqWebhook == Init /\ [][NextSeqWebhook]_vars

\* purchases by s1 from s2 of whole-cent totals and the status updates of
\* their orders
NextOrders ==
  \/ \E p \in Procs :
       \/ StartPurchase(p)
       \/ PurchaseStep(p, {1000, 2000})
       \/ OpenSellerPanel(p, S2)
       \/ PanelStep(p)
  \/ \E i \in DOMAIN orders, st \in OrderStatuses : AdminUpdateOrderStatus(i, st)

SpecOrders == Init /\ [][NextOrders]_vars

\* the initial store where no user may have the admin role
InitAdminOptional ==
  /\ balance = InitBalance
  /\ transactions = InitTransactions
  /\ withdrawals = <<>>
  /\ orders = <<>>
  /\ sellers = InitSellers
  /\ adminRole \in {Adm, NoUser}
  /\ payments = InitPayments
  /\ transfers = <<>>
  /\ customers = {payments[pid].userId : pid \in DOMAIN InitPayments}
  /\ req = [p \in Procs |-> Idle]
  /\ nreq = 0

\* withdrawal requests, one at a time, with or without an admin account
NextSeqWithdraw ==
  \E p \in Procs :
    \/ Quiet /\ StartWithdrawal(p)
    \/ WithdrawalStep(p)

SpecAdminOptional == InitAdminOptional /\ [][NextSeqWithdraw]_vars

\* the settings s2 saves: a higher price, narrower limits
SettingsForms ==
  {[price_per_1k |-> 4000, min_amount |-> 1000, max_amount |-> 2000],
   [price_per_1k |-> 3000, min_amount |-> 1500, max_amount |-> 2000]}

\* purchases by s1 from s2 while s2 saves new settings
NextReprice ==
  \/ \E p \in Procs :
       \/ StartPurchase(p)
       \/ PurchaseStep(p, {1000, 2000})
  \/ \E f \in SettingsForms : HandleSaveSettings(S2, f)

SpecReprice == Init /\ [][NextReprice]_vars

\* withdrawal requests of s1, one at a time, of 10.30 (whose fee 0.515 and net
\* amount 9.785 lie on a half cent) and of 50.00
RoundingAmounts == {1030, 5000}

NextRounding ==
  \E p \in Procs :
    \/ Quiet /\ \E a \in RoundingAmounts : RequestWithdrawal(p, S1, a)
    \/ WithdrawalStep(p)

SpecRounding == Init /\ [][NextRounding]_vars

\* webhook deliveries, the gateway's and forged ones, one request at a time
NextForged ==
  \E p \in Procs :
    \/ Quiet /\ \E body \in GatewayDeliveries \cup ForgedDeliveries : Webhook(p, body)
    \/ HReadProfile(p) \/ HCredit(p) \/ HInsertTx(p)

SpecForged == Init /\ [][NextForged]_vars

\* checkStatus requests of every account for every payment, concurrently
NextCheck ==
  \E p \in Procs :
    \/ \E u \in Users, pid \in DOMAIN payments : CheckPayment(p, u, pid)
    \/ CheckStep(p)

SpecCheck == Init /\ [][NextCheck]_vars

\* the store after the gateway has delivered the confirmation of s1's payment
\* of 20.00 to the webhook n times, one delivery after the other: each
\* delivery added 20.00 to the balance and one deposit row
Redelivered(n) ==
  /\ balance = [InitBalance EXCEPT ![S1] = @ + n * payments[PayC].value]
  /\ transactions =
       IF n = 0 THEN InitTransactions
       ELSE InitTransactions (+)
              [r \in {TxRow(S1, "deposit", payments[PayC].value, PayC, 0)} |-> n]

InitRedelivered ==
  /\ payments = InitPayments
  /\ \E n \in 0..2 : Redelivered(n)
  /\ withdrawals = <<>>
  /\ orders = <<>>
  /\ sellers = InitSellers
  /\ adminRole = Adm
  /\ transfers = <<>>
  /\ customers = {payments[pid].userId : pid \in DOMAIN InitPayments}
  /\ req = [p \in Procs |-> Idle]
  /\ nreq = 0

\* checkStatus requests and further deliveries, one request at a time
NextSeqCheck ==
  \E p \in Procs :
    \/ Quiet /\ \E u \in Users, pid \in DOMAIN payments : CheckPayment(p, u, pid)
    \/ Quiet /\ StartWebhook(p)
    \/ CheckStep(p)
    \/ HReadProfile(p) \/ HCredit(p) \/ HInsertTx(p)

SpecRedelivered == InitRedelivered /\ [][NextSeqCheck]_vars

\* every handler, concurrently
Next ==
  \E p \in Procs :
    \/ StartWithdrawal(p)
    \/ StartWebhook(p)
    \/ StartCheck(p)
    \/ StartPurchase(p)
    \/ WithdrawalStep(p)
    \/ WebhookStep(p)
    \/ CheckStep(p)
    \/ PurchaseStep(p, Quantities)

Spec == Init /\ [][Next]_vars

\* ------------------------------------------------------------------ claims
RECURSIVE SumGross(_, _)
\* the gross amounts (payment_details.originalAmount) of u's first n withdrawals
SumGross(u, n) ==
  IF n = 0 THEN 0
  ELSE (IF withdrawals[n].seller_id = u THEN withdrawals[n].originalAmount ELSE 0)
       + SumGross(u, n - 1)

WithdrawnGross(u) == SumGross(u, Len(withdrawals))

RECURSIVE SumTotals(_, _)
\* the total_price of the first n orders that u bought
SumTotals(u, n) ==
  IF n = 0 THEN 0
  ELSE (IF orders[n].buyer_id = u THEN orders[n].total_price ELSE 0)
       + SumTotals(u, n - 1)

OrderedTotal(u) == SumTotals(u, Len(orders))

\* the deposit rows recorded for payment pid
DepositRows(pid) ==
  CountRows(transactions,
            {r \in BagToSet(transactions) : r.type = "deposit" /\ r.pay = pid})

\* C1: whenever no request is in flight, after any deposits, purchases and
\* withdrawals, every account's balance (the admin account that receives the
\* withdrawal fees included) equals the sum of the signed amounts of its
\* transaction rows.
C1_LedgerReconciles == Quiet => \A u \in Users : balance[u] = TxSum(u)

\* C2: after concurrent debits (withdrawals and purchases) of one account have
\* all returned, the balance is not negative and the debits that succeeded
\* (the withdrawals and orders recorded for the account) fit in the funds the
\* account had: no debit succeeded beyond the balance.
C2_DebitsFit ==
  Quiet =>
    /\ balance[S1] >= 0
    /\ WithdrawnGross(S1) + OrderedTotal(S1) <= InitBalance[S1]

\* C3: after the confirmations of the 20.00 payment made one after the other,
\* by webhook or by checkStatus in any order, the payment has been credited at
\* most once: it has at most one deposit row and the balance has grown by its
\* value at most once.
C3_CreditedOnce ==
  (Quiet /\ DepositRows(PayA) = 1) =>
    /\ DepositRows(PayC) <= 1
    /\ balance[S1] = InitBalance[S1] + DepositRows(PayC) * payments[PayC].value

\* C4: when two webhook deliveries confirming the 20.00 payment were processed
\* concurrently, the account's balance has grown by exactly 20.00 and exactly
\* one deposit row is recorded for the payment.
C4_ConcurrentWebhooks ==
  ( /\ Quiet
    /\ \A p \in Procs : /\ req[p].op = "webhook"
                        /\ req[p].pay = PayC
                        /\ req[p].credited
    /\ \E p \in Procs : req[p].overlap )
  => /\ balance[S1] = InitBalance[S1] + payments[PayC].value
     /\ DepositRows(PayC) = 1

\* C5: when a webhook delivery and a checkStatus call for the same confirmed
\* payment overlap, at most one of the two credits the account.
C5_PushPullRace ==
  ~ \E p, q \in Procs :
      /\ req[p].op = "webhook" /\ req[q].op = "check"
      /\ req[p].pay = req[q].pay
      /\ req[p].overlap \/ req[q].overlap
      /\ req[p].credited /\ req[q].credited

RECURSIVE SumFees(_)
\* the fees (payment_details.adminFee) of the first n withdrawals
SumFees(n) ==
  IF n = 0 THEN 0 ELSE withdrawals[n].adminFee + SumFees(n - 1)

\* the fee rows recorded for the admin account
FeeRows ==
  CountRows(transactions,
            {r \in BagToSet(transactions) : r.type = "fee" /\ r.user = adminRole})

\* the amount of every Withdrawal row is 95% of its gross amount, rounded to
\* the cent
NetIsRounded ==
  \A i \in DOMAIN withdrawals :
    2 * Abs(100 * withdrawals[i].amount - 95 * withdrawals[i].originalAmount) <= 100

\* C6: for every accepted withdrawal request of gross amount G the Withdrawal
\* row's amount is 0.95 * G rounded to the cent, and once the requests have
\* returned each seller's balance has gone down by exactly G for every one of
\* the seller's accepted requests.
C6_FeeLaw ==
  /\ NetIsRounded
  /\ Quiet => \A u \in DOMAIN sellers :
                InitBalance[u] - balance[u] = WithdrawnGross(u)

\* C7: with an admin account, once the withdrawal requests have returned the
\* admin's balance has grown by the 5% fee of every accepted withdrawal and
\* one fee transaction row is recorded per withdrawal.
C7_FeeCredited ==
  Quiet =>
    /\ FeeRows = Len(withdrawals)
    /\ balance[Adm] * Milli = InitBalance[Adm] * Milli + SumFees(Len(withdrawals))

\* C8: a withdrawal request is rejected exactly when the gross amount is below
\* 10.00 or the caller is no seller (at the start), or the caller's balance at
\* the balance read is below the gross amount (a balance equal to it is
\* accepted); the rejecting step changes no store row and no gateway state, and
\* no later step rejects.
C8_RejectedBeforeMutation ==
  [][\A p \in Procs :
       (req'[p] # req[p] /\ req'[p].op = "withdrawal") =>
         LET u == req'[p].user
             g == req'[p].amount
             rejected == req'[p].pc = "done" /\ req'[p].http = 400
         IN  /\ req[p].pc \in {"idle", "done"} =>
                  (rejected <=> (g < 1000 \/ u \notin DOMAIN sellers))
             /\ req[p].pc = "w_profile" => (rejected <=> balance[u] < g)
             /\ rejected => /\ req[p].pc \in {"idle", "done", "w_profile"}
                            /\ UNCHANGED <<dbvars, gwvars>>]_vars

C8_Witness ==
  /\ \E i \in DOMAIN withdrawals :
       withdrawals[i].seller_id = S1 /\ withdrawals[i].originalAmount = InitBalance[S1]
  /\ \E p \in Procs :
       /\ req[p].op = "withdrawal" /\ req[p].user = S1
       /\ req[p].pc = "done" /\ req[p].http = 400 /\ req[p].err = "InsufficientBalance"
  /\ Len(withdrawals) = 1 /\ Len(transfers) <= 1

\* C9: once the withdrawal requests (made one at a time) have returned, also
\* when a store call failed, every Withdrawal row has its seller debit and
\* every debit its row (the balance has gone down by the gross amounts of the
\* rows), so a transfer was requested only for a debited withdrawal.
C9_WithdrawalAtomic ==
  Quiet => \A u \in DOMAIN sellers :
             balance[u] = InitBalance[u] - WithdrawnGross(u)

\* C10: the step that calls createTransfer changes no store row (no rollback);
\* when the gateway returned a transfer id the handler goes on to set the
\* Withdrawal approved and answers 200; when the call threw, timed out or
\* returned no id the Withdrawal is pending and the handler answers 200 at
\* once; no withdrawal ever has two transfers.
C10_TransferOutcome ==
  /\ [][\A p \in Procs :
          /\ (req[p].pc = "w_transfer" /\ req'[p] # req[p]) =>
               /\ UNCHANGED dbvars
               /\ IF req'[p].xfer = "id"
                  THEN req'[p].pc = "w_approve"
                  ELSE /\ req'[p].pc = "done" /\ req'[p].http = 200
                       /\ withdrawals'[req[p].wid].status = "pending"
          /\ (req[p].pc = "w_approve" /\ req'[p] # req[p]) =>
               /\ withdrawals'[req[p].wid].status = "approved"
               /\ balance' = balance
               /\ req'[p].pc = "done" /\ req'[p].http = 200]_vars
  /\ [](\A i \in DOMAIN withdrawals :
          Cardinality({t \in DOMAIN transfers : transfers[t].withdrawalId = i}) <= 1)

C10_Witness ==
  \E p \in Procs :
    /\ req[p].op = "withdrawal" /\ req[p].pc = "done" /\ req[p].http = 200
    /\ req[p].xfer = "timeout"
    /\ withdrawals[req[p].wid].status = "pending"
    /\ balance[req[p].user] = InitBalance[req[p].user] - req[p].amount
    /\ balance[Adm] > InitBalance[Adm]

\* C11: handlePurchase refuses a quantity with InvalidQuantity exactly when it
\* is outside [seller.min_amount, seller.max_amount] (max_amount itself is
\* accepted, max_amount + 1 refused); the refusing step creates no order and
\* changes no balance or other row, and every order's quantity is within its
\* seller's limits.
C11_QuantityBounds ==
  /\ [][\A p \in Procs :
          (req[p].pc = "b_form" /\ req'[p] # req[p]) =>
            LET q == req'[p].amount
                s == sellers[req[p].seller]
                refused == req'[p].pc = "done" /\ req'[p].err = "InvalidQuantity"
            IN  /\ refused <=> ~(s.min_amount <= q /\ q <= s.max_amount)
                /\ refused => UNCHANGED <<dbvars, gwvars>>]_vars
  /\ [](\A i \in DOMAIN orders :
          /\ sellers[orders[i].seller_id].min_amount <= orders[i].amount
          /\ orders[i].amount <= sellers[orders[i].seller_id].max_amount)

C11_Witness ==
  /\ \E i \in DOMAIN orders :
       orders[i].amount = sellers[orders[i].seller_id].max_amount
  /\ \E p \in Procs :
       /\ req[p].op = "purchase" /\ req[p].pc = "done"
       /\ req[p].err = "InvalidQuantity"
       /\ req[p].amount = sellers[req[p].seller].max_amount + 1
  /\ Len(orders) = 1

\* the purchase rows recorded for order i with amount a
PurchaseRows(i, a) ==
  CountRows(transactions,
            {r \in BagToSet(transactions) :
               r.type = "purchase" /\ r.order = i /\ r.amount = a})

\* C12: every order's total_price is (quantity / 1000) * the seller's price
\* per 1k rounded to the cent, and once the purchases (made one at a time) have
\* returned every buyer's balance has gone down by exactly the recorded totals
\* of the buyer's orders and each order has one purchase row whose amount is
\* the negated total.
C12_TotalLaw ==
  /\ \A i \in DOMAIN orders :
       2 * Abs(orders[i].total_price * Milli
               - orders[i].amount * sellers[orders[i].seller_id].price_per_1k) <= Milli
  /\ Quiet =>
       /\ \A u \in {S1, S2} : InitBalance[u] - balance[u] = OrderedTotal(u)
       /\ \A i \in DOMAIN orders : PurchaseRows(i, -orders[i].total_price) = 1

\* C13: a purchase whose quantity is valid is refused with InsufficientBalance
\* exactly when the buyer's stored balance at the moment of the request is
\* below the total (a balance equal to the total is accepted), and the
\* refusing step changes no order, balance or transaction.
C13_BalanceChecked ==
  [][\A p \in Procs :
       (req[p].pc = "b_form" /\ req'[p] # req[p]
          /\ req'[p].err # "InvalidQuantity") =>
         LET total == CalculateTotal(req'[p].amount,
                                     sellers[req[p].seller].price_per_1k)
             refused == req'[p].pc = "done" /\ req'[p].err = "InsufficientBalance"
         IN  /\ refused <=> balance[req[p].user] * Milli < total
             /\ refused => UNCHANGED <<dbvars, gwvars>>]_vars

\* C14: once the purchases (made one page at a time) have returned, also when
\* a store call failed, every order is pending and has its buyer debit and its
\* purchase row: each buyer's balance has gone down by the totals of the
\* buyer's orders and each order has one purchase row of the negated total.
C14_OrderAtomic ==
  Quiet =>
    /\ \A u \in {S1, S2} : balance[u] = InitBalance[u] - OrderedTotal(u)
    /\ \A i \in DOMAIN orders :
         /\ orders[i].status = "pending"
         /\ PurchaseRows(i, -orders[i].total_price) = 1

\* the sum of the deposit rows of account u
DepositSum(u) ==
  SumRows(transactions,
          {r \in BagToSet(transactions) : r.user = u /\ r.type = "deposit"})

\* C15: when a deposit credit (webhook or checkStatus) and a debit (purchase
\* or withdrawal) of account s1 have run in any interleaving and returned, the
\* balance is the deposits credited minus the debits that succeeded (the gross
\* amounts of the withdrawals and the totals of the orders recorded): no
\* update is lost.
C15_Serialized ==
  ( /\ Quiet
    /\ \E p, q \in Procs :
         /\ req[p].op \in {"webhook", "check"} /\ req[p].user = S1
         /\ req[p].credited
         /\ req[q].op \in {"purchase", "withdrawal"} /\ req[q].user = S1
         /\ req[q].http = 200 )
  => balance[S1] = DepositSum(S1) - WithdrawnGross(S1) - OrderedTotal(S1)

\* C16: a webhook delivery whose reference is missing or is not JSON changes
\* no balance, transaction, withdrawal or other row and is answered at once
\* with 200; the webhook answers 500 only when the handler threw an exception.
C16_MalformedReference ==
  /\ [][\A p \in Procs :
          (req'[p] # req[p] /\ req'[p].op = "webhook"
             /\ req'[p].ref \in {"missing", "invalid"}) =>
            /\ UNCHANGED <<dbvars, gwvars>>
            /\ req'[p].pc = "done" /\ req'[p].http = 200]_vars
  /\ [](\A p \in Procs :
          (req[p].op = "webhook" /\ req[p].pc = "done") =>
            /\ req[p].http \in {200, 500}
            /\ req[p].http = 500 <=> req[p].err = "Exception"
            /\ req[p].http = 500 => req[p].ref \in {"nobody", "null"})

C16_Witness ==
  /\ \E p \in Procs :
       /\ req[p].op = "webhook" /\ req[p].ref = "invalid"
       /\ req[p].event = "PAYMENT_CONFIRMED" /\ req[p].overlap
       /\ req[p].pc = "done" /\ req[p].http = 200
  /\ \E p \in Procs :
       /\ req[p].op = "withdrawal" /\ InFlight(p)
  /\ Len(withdrawals) = 1

\* C17: createDeposit fails at once with InvalidAmount exactly when the amount
\* is missing or below 5.00; the failing step makes no gateway call and changes
\* no row, such a request never reaches a gateway call, and no payment of less
\* than 5.00 is created at the gateway.
C17_MinimumDeposit ==
  /\ [][\A p \in Procs :
          (req'[p] # req[p] /\ req'[p].op = "deposit"
             /\ req[p].pc \in {"idle", "done"}) =>
            LET invalid == /\ req'[p].pc = "done" /\ req'[p].http = 400
                           /\ req'[p].err = "InvalidAmount"
            IN  /\ invalid <=> req'[p].amount < 500
                /\ invalid => UNCHANGED <<dbvars, gwvars>>]_vars
  /\ [](\A p \in Procs :
          (req[p].op = "deposit" /\ req[p].amount < 500) =>
            req[p].pc = "done" /\ req[p].pay = NoPay)
  /\ [](\A pid \in DOMAIN payments \ DOMAIN InitPayments :
          payments[pid].value >= 500)

C17_Witness ==
  /\ \E p \in Procs :
       /\ req[p].op = "deposit" /\ req[p].amount = 499 /\ req[p].user = Adm
       /\ req[p].pc = "done" /\ req[p].err = "InvalidAmount"
  /\ \E p \in Procs :
       /\ req[p].op = "deposit" /\ req[p].amount = 500 /\ req[p].http = 200
       /\ req[p].pay \in DOMAIN payments /\ payments[req[p].pay].value = 500
  /\ Adm \notin customers

\* C18: a Withdrawal row is created pending and its status changes only from
\* pending to approved and from approved to completed; in particular a
\* transfer-confirmation delivery leaves a withdrawal that is not approved
\* as it is.
C18_StatusMachine ==
  [][/\ \A i \in DOMAIN withdrawals :
          withdrawals'[i].status # withdrawals[i].status =>
            <<withdrawals[i].status, withdrawals'[i].status>> \in
              {<<"pending", "approved">>, <<"approved", "completed">>}
     /\ \A i \in DOMAIN withdrawals' \ DOMAIN withdrawals :
          withdrawals'[i].status = "pending"]_vars

\* C19: a step of a webhook delivery changes a balance or adds a transaction
\* only when the event is a payment confirmation or receipt and the reference
\* is of type deposit and names an account: a confirmation event with a
\* withdrawal reference, and any other event with a deposit reference, credit
\* nothing.
C19_CreditGuards ==
  /\ [][\A p \in Procs :
          (req'[p] # req[p] /\ req'[p].op = "webhook"
             /\ ~(/\ req'[p].event \in {"PAYMENT_CONFIRMED", "PAYMENT_RECEIVED"}
                  /\ req'[p].type = "deposit"
                  /\ req'[p].user \in Users)) =>
            balance' = balance /\ transactions' = transactions]_vars
  /\ [](\A p \in Procs :
          (req[p].op = "webhook" /\ req[p].credited) =>
            /\ req[p].event \in {"PAYMENT_CONFIRMED", "PAYMENT_RECEIVED"}
            /\ req[p].type = "deposit"
            /\ req[p].user \in Users)

C19_Witness ==
  /\ \E p \in Procs :
       /\ req[p].op = "webhook" /\ req[p].pc = "done" /\ req[p].http = 200
       /\ req[p].event = "PAYMENT_CONFIRMED" /\ req[p].type = "withdrawal"
       /\ req[p].overlap /\ ~req[p].credited
  /\ \E p \in Procs : req[p].op = "withdrawal" /\ req[p].pc = "done"
  /\ Len(withdrawals) = 1
  /\ balance[S1] = InitBalance[S1] - withdrawals[1].originalAmount
  /\ DepositSum(S1) = InitBalance[S1]

\* C20: a step that changes an existing order (updateOrderStatus from the
\* seller panel or the admin panel, to any status, cancelled included) changes
\* only its status and completion timestamp: its total_price, quantity, buyer
\* and seller, every balance and every transaction row stay as they are; and
\* no step of a seller panel changes a balance or a transaction.
C20_StatusUpdateFrame ==
  [][/\ \A i \in DOMAIN orders :
          orders'[i] # orders[i] =>
            /\ orders'[i].total_price = orders[i].total_price
            /\ orders'[i].amount = orders[i].amount
            /\ orders'[i].buyer_id = orders[i].buyer_id
            /\ orders'[i].seller_id = orders[i].seller_id
            /\ balance' = balance
            /\ transactions' = transactions
     /\ \A p \in Procs :
          (req'[p] # req[p] /\ req'[p].op = "panel") =>
            balance' = balance /\ transactions' = transactions]_vars

C20_Witness ==
  /\ Len(orders) = 1
  /\ orders[1].status = "cancelled" /\ orders[1].completed_at
  /\ \E p \in Procs : req[p].op = "panel" /\ req[p].seen = <<"completed">>
  /\ PurchaseRows(1, -orders[1].total_price) = 1
  /\ \A u \in {S1, S2} : balance[u] = InitBalance[u] - OrderedTotal(u)

\* C21: an order whose status is completed has its completion timestamp,
\* whether the seller or an admin made it completed.
C21_CompletedStamped ==
  \A i \in DOMAIN orders :
    orders[i].status = "completed" => orders[i].completed_at

\* C22: an order's status changes only from pending to processing, from
\* processing to completed, or to cancelled or disputed; a completed or
\* cancelled order never goes back to pending or processing.
C22_OrderStatusEdges ==
  [][\A i \in DOMAIN orders :
       orders'[i].status # orders[i].status =>
         \/ <<orders[i].status, orders'[i].status>> \in
              {<<"pending", "processing">>, <<"processing", "completed">>}
         \/ orders'[i].status \in {"cancelled", "disputed"}]_vars

\* C23: where no user has the admin role, a withdrawal request (made one at a
\* time) of a seller whose amount is at least 10.00 and within the balance
\* succeeds: its Withdrawal row holds the net amount, the seller's balance
\* goes down by the gross amount, no other account's balance changes and no
\* fee transaction is recorded.
C23_NoAdminAccount ==
  adminRole = NoUser =>
    /\ NetIsRounded
    /\ \A u \in Users \ DOMAIN sellers : balance[u] = InitBalance[u]
    /\ \A r \in BagToSet(transactions) : r.type \in {"deposit", "withdrawal"}
    /\ \A p \in Procs :
         (req[p].op = "withdrawal" /\ req[p].pc = "done") =>
           IF req[p].http = 200
           THEN /\ req[p].wid \in DOMAIN withdrawals
                /\ withdrawals[req[p].wid].originalAmount = req[p].amount
                /\ withdrawals[req[p].wid].seller_id = req[p].user
           ELSE req[p].err \in {"InvalidAmount", "NotASeller", "InsufficientBalance"}
    /\ Quiet => \A u \in DOMAIN sellers :
                  /\ balance[u] = InitBalance[u] - WithdrawnGross(u)
                  /\ TxSum(u) = balance[u]

C23_Witness ==
  /\ adminRole = NoUser
  /\ \E p \in Procs :
       /\ req[p].op = "withdrawal" /\ req[p].pc = "done" /\ req[p].http = 200
       /\ req[p].user = S1 /\ req[p].amount = 5000
       /\ withdrawals[req[p].wid].amount = 4750
  /\ Len(withdrawals) = 1
  /\ balance[S1] = 5000 /\ balance[Adm] = 0

\* C24: an order is created with the seller's values stored at that moment:
\* its total_price is (quantity / 1000) * the stored price per 1k rounded to
\* the cent and its quantity is within the stored limits, also when the seller
\* saved new settings after the buyer loaded the purchase page.
C24_PricedAtCommit ==
  [][Len(orders') > Len(orders) =>
       LET o == orders'[Len(orders')]
           seller == sellers[o.seller_id]
       IN  /\ 2 * Abs(o.total_price * Milli - o.amount * seller.price_per_1k) <= Milli
           /\ seller.min_amount <= o.amount
           /\ o.amount <= seller.max_amount]_vars

RECURSIVE SumTransfers(_, _)
\* the values of the first n transfers requested for seller u
SumTransfers(u, n) ==
  IF n = 0 THEN 0
  ELSE (IF transfers[n].sellerId = u THEN transfers[n].value ELSE 0)
       + SumTransfers(u, n - 1)

\* C25: while s1 is the only seller withdrawing, in every state of every
\* interleaving of its requests the net amounts sent to the gateway's transfer
\* endpoint plus the fees credited to the admin account do not exceed the
\* amount by which s1's balance has gone down.
C25_PayoutCovered ==
  (\A i \in DOMAIN withdrawals : withdrawals[i].seller_id = S1) =>
    SumTransfers(S1, Len(transfers)) + (balance[Adm] - InitBalance[Adm])
      <= InitBalance[S1] - balance[S1]

RECURSIVE SumNet(_)
\* the net amounts stored in the first n Withdrawal rows
SumNet(n) ==
  IF n = 0 THEN 0 ELSE withdrawals[n].amount + SumNet(n - 1)

\* C26: once the withdrawal requests (made one at a time) have returned, the
\* net amounts stored in the Withdrawal rows plus the fees added to the admin
\* account's stored balance equal the gross amounts debited from the seller:
\* rounding creates and destroys no cent.
C26_RoundingConserves ==
  Quiet =>
    SumNet(Len(withdrawals)) + (balance[Adm] - InitBalance[Adm])
      = InitBalance[S1] - balance[S1]

\* C27: every deposit credit corresponds to a payment that createDeposit
\* created for that same account, of the credited amount and confirmed at the
\* gateway: every deposit transaction row, and every credit a webhook request
\* has applied, names such a payment; a body naming another account or value
\* credits nothing.
C27_CreditsMatchIntents ==
  /\ \A r \in BagToSet(transactions) :
       r.type = "deposit" =>
         /\ r.pay \in DOMAIN payments
         /\ payments[r.pay].userId = r.user
         /\ payments[r.pay].value = r.amount
         /\ payments[r.pay].status \in {"CONFIRMED", "RECEIVED"}
  /\ \A p \in Procs :
       (req[p].op = "webhook" /\ req[p].credited) =>
         /\ req[p].pay \in DOMAIN payments
         /\ payments[req[p].pay].userId = req[p].user
         /\ payments[req[p].pay].value = req[p].value

\* a checkStatus request in slot p whose caller is not the account the
\* payment's reference names
NonOwnerCheck(r) ==
  /\ r.op = "check"
  /\ r.pay \in DOMAIN payments
  /\ payments[r.pay].userId # r.user

\* C28: checkStatus called for a confirmed payment whose reference names
\* another account credits no account: every step of such a request leaves
\* all balances and the transactions as they were and ends the request
\* without a credit, so the ledger after the call is the ledger before it
\* whichever non-owner calls.
C28_NonOwnerCreditsNobody ==
  [][\A p \in Procs :
       (req'[p] # req[p] /\ NonOwnerCheck(req'[p])) =>
         /\ balance' = balance
         /\ transactions' = transactions
         /\ req'[p].pc = "done"
         /\ ~req'[p].credited
         /\ req'[p].http = 200]_vars

\* s2 or the admin has called checkStatus for s1's confirmed, unsettled
\* payment of 20.00 and the ledger is the initial one
C28_Witness ==
  /\ \E p \in Procs :
       /\ NonOwnerCheck(req[p])
       /\ req[p].pay = PayC
       /\ payments[PayC].status = "CONFIRMED"
       /\ req[p].pc = "done"
  /\ balance = InitBalance
  /\ transactions = InitTransactions

\* number of deposit rows of account u that name payment pid
RowsOf(u, pid) ==
  CountRows(transactions,
            {r \in BagToSet(transactions) :
               r.user = u /\ r.type = "deposit" /\ r.pay = pid})

\* C29: on the pull path (requests made one at a time) settlement of one
\* payment never blocks that of another and nothing is credited twice: after
\* the owner's checkStatus for a confirmed deposit the account has a deposit
\* row of that payment, whatever rows of other payments it has; and a
\* checkStatus request credits only when the account has no deposit row of
\* that payment yet, also when it has more than one.
C29_PullSettlesEachOnce ==
  /\ [](\A p \in Procs :
         (req[p].op = "check" /\ req[p].pc = "done" /\ req[p].http = 200
            /\ payments[req[p].pay].userId = req[p].user
            /\ payments[req[p].pay].status \in {"CONFIRMED", "RECEIVED"}) =>
           RowsOf(req[p].user, req[p].pay) >= 1)
  /\ [][\A p \in Procs :
         (req'[p].op = "check" /\ req'[p].credited /\ ~req[p].credited) =>
           RowsOf(req[p].user, req[p].pay) = 0]_vars

\* C30: completed is stable for a withdrawal: once the transfer confirmation
\* webhook has set a withdrawal to completed no later step changes its status;
\* in particular requestWithdrawal's update after the transfer does not move
\* it back to approved.
C30_CompletedStable ==
  [][\A i \in DOMAIN withdrawals :
       withdrawals[i].status = "completed" =>
         withdrawals'[i].status = "completed"]_vars

====
